---------------------------- MODULE Spec2Model ----------------------------
(***************************************************************************)
(* TF-IDF search engine of src/src/utils/searchEngine.ts.                  *)
(*                                                                         *)
(* Representation.                                                         *)
(*  - A JavaScript string is a sequence of one-character strings, so that  *)
(*    lower-casing, the punctuation regexp, tokenizing and suffix          *)
(*    stripping are computed character by character as the code does.      *)
(*  - A JavaScript number is a fixed-point integer in units of 1/SCALE     *)
(*    (floor rounding), or NaN.  Math.log is LnTable.                      *)
(*  - A JavaScript object used as a map ({} with Object.prototype behind   *)
(*    it) is either a sequence of [term, val] entries in own-key order     *)
(*    (termFreq, TF-IDF vectors) or a function over its own keys           *)
(*    (idfCache, invertedIndex).  A read obj[k] of a key that is not an    *)
(*    own key falls through to Object.prototype: see ProtoKeys.            *)
(***************************************************************************)
EXTENDS Integers, Sequences, FiniteSets, TLC

VARIABLES
    corpus,         \* searchEngine.ts:20  ProcessedDocument[]
    vocabulary,     \* searchEngine.ts:21  Set<string>
    idfCache,       \* searchEngine.ts:22  own properties of the cache object
    invertedIndex,  \* searchEngine.ts:23  own properties of the index object
    op,             \* the exported function called last ("init" before any call)
    raised,         \* TRUE iff that call ended by throwing a TypeError
    query,          \* the query of the last searchDocuments call
    ret,            \* the SearchResult[] the last searchDocuments call returned
    stats,          \* the object the last getCorpusStats call returned
    atCall,         \* what the engine held when that call began
    arg,            \* the argument of the last call of stem, preprocessText or calculateTF
    val,            \* the value that call returned
    page            \* Index.tsx:17-20  state of the Index page and its pending timers

vars == <<corpus, vocabulary, idfCache, invertedIndex, op, raised, query, ret, stats, atCall,
          arg, val, page>>

engine == <<corpus, vocabulary, idfCache, invertedIndex>>

-----------------------------------------------------------------------------
(* Characters                                                              *)

LowerLetters == <<"a","b","c","d","e","f","g","h","i","j","k","l","m",
                  "n","o","p","q","r","s","t","u","v","w","x","y","z">>

UpperLetters == <<"A","B","C","D","E","F","G","H","I","J","K","L","M",
                  "N","O","P","Q","R","S","T","U","V","W","X","Y","Z">>

Digits == <<"0","1","2","3","4","5","6","7","8","9">>

Range(s) == {s[i] : i \in DOMAIN s}

\* String.prototype.toLowerCase on one (ASCII) character
LowerChar(c) ==
    IF c \in Range(UpperLetters)
    THEN LowerLetters[CHOOSE i \in DOMAIN UpperLetters : UpperLetters[i] = c]
    ELSE c

toLowerCase(text) == [i \in DOMAIN text |-> LowerChar(text[i])]

\* the regexp class \w : [A-Za-z0-9_]
IsWordChar(c) ==
    c \in Range(LowerLetters) \cup Range(UpperLetters) \cup Range(Digits) \cup {"_"}

\* the regexp class \s (the white space the inputs use)
IsSpace(c) == c \in {" ", "\t", "\n"}

\* text.replace(/[^\w\s]/g, ' ')
ReplacePunctuation(text) ==
    [i \in DOMAIN text |->
        IF IsWordChar(text[i]) \/ IsSpace(text[i]) THEN text[i] ELSE " "]

\* cleaned.split(/\s+/).filter(token => token.length > 0), scanning from
\* position i with the token being read in cur
RECURSIVE SplitFrom(_, _, _)
SplitFrom(text, i, cur) ==
    IF i > Len(text)
    THEN IF cur = <<>> THEN <<>> ELSE <<cur>>
    ELSE IF IsSpace(text[i])
         THEN (IF cur = <<>> THEN <<>> ELSE <<cur>>) \o SplitFrom(text, i + 1, <<>>)
         ELSE SplitFrom(text, i + 1, Append(cur, text[i]))

Tokenize(text) == SplitFrom(text, 1, <<>>)

STOPWORDS == {
     <<"a">>, <<"a","n">>, <<"a","n","d">>, <<"a","r","e">>, <<"a","s">>, <<"a","t">>,
     <<"b","e">>, <<"b","y">>, <<"f","o","r">>, <<"f","r","o","m">>, <<"h","a","s">>,
     <<"h","e">>, <<"i","n">>, <<"i","s">>, <<"i","t">>, <<"i","t","s">>, <<"o","f">>,
     <<"o","n">>, <<"t","h","a","t">>, <<"t","h","e">>, <<"t","o">>, <<"w","a","s">>,
     <<"w","i","l","l">>, <<"w","i","t","h">>, <<"t","h","e">>, <<"t","h","i","s">>,
     <<"b","u","t">>, <<"t","h","e","y">>, <<"h","a","v","e">>, <<"h","a","d">>,
     <<"w","h","a","t">>, <<"s","a","i","d">>, <<"e","a","c","h">>, <<"w","h","i","c","h">>,
     <<"s","h","e">>, <<"d","o">>, <<"h","o","w">>, <<"t","h","e","i","r">>, <<"i","f">>,
     <<"u","p">>, <<"o","u","t">>, <<"m","a","n","y">>, <<"t","h","e","n">>,
     <<"t","h","e","m">>, <<"t","h","e","s","e">>, <<"s","o">>, <<"s","o","m","e">>,
     <<"h","e","r">>, <<"w","o","u","l","d">>, <<"m","a","k","e">>, <<"l","i","k","e">>,
     <<"i","n","t","o">>, <<"h","i","m">>, <<"t","i","m","e">>, <<"t","w","o">>,
     <<"m","o","r","e">>, <<"v","e","r","y">>, <<"w","h","e","n">>, <<"c","o","m","e">>,
     <<"m","a","y">>, <<"u","s","e">>, <<"t","h","a","n">>, <<"f","i","r","s","t">>,
     <<"b","e","e","n">>, <<"h","i","s">>, <<"w","h","o">>, <<"o","i","l">>, <<"s","i","t">>,
     <<"n","o","w">>, <<"f","i","n","d">>, <<"d","o","w","n">>, <<"d","a","y">>,
     <<"d","i","d">>, <<"g","e","t">>, <<"h","a","s">>, <<"m","a","d","e">>, <<"m","y">>,
     <<"o","v","e","r">>, <<"s","u","c","h">>, <<"m","e">>, <<"e","v","e","n">>,
     <<"m","o","s","t">>, <<"c","a","n">>, <<"s","h","o","u","l","d">>, <<"a","f","t","e","r">> }

suffixes == <<
     <<"i","n","g">>, <<"l","y">>, <<"e","d">>, <<"i","e","s">>, <<"i","e","d">>,
     <<"i","e","s">>, <<"i","e","d">>, <<"i","e","s">>, <<"i","n","g">>, <<"e","d">>,
     <<"e","r">>, <<"e","s","t">>, <<"s">>, <<"e","s">>, <<"m","e","n","t">>,
     <<"n","e","s","s">>, <<"t","i","o","n">>, <<"s","i","o","n">>, <<"a","b","l","e">>,
     <<"i","b","l","e">> >>

\* word.endsWith(suffix)
endsWith(word, suffix) ==
    /\ Len(suffix) <= Len(word)
    /\ SubSeq(word, Len(word) - Len(suffix) + 1, Len(word)) = suffix

\* the loop of stem ended by the first suffix the word ends with, whether or
\* not the word is long enough for it
RECURSIVE StemFromStopsAtMatch(_, _)
StemFromStopsAtMatch(word, k) ==
    IF k > Len(suffixes) THEN word
    ELSE IF endsWith(word, suffixes[k])
         THEN IF Len(word) > Len(suffixes[k]) + 2
              THEN SubSeq(word, 1, Len(word) - Len(suffixes[k]))
              ELSE word
         ELSE StemFromStopsAtMatch(word, k + 1)

\* the loop of stem with the guard word.length > suffix.length + 1
RECURSIVE StemFromShortGuard(_, _)
StemFromShortGuard(word, k) ==
    IF k > Len(suffixes) THEN word
    ELSE IF endsWith(word, suffixes[k]) /\ Len(word) > Len(suffixes[k]) + 1
         THEN SubSeq(word, 1, Len(word) - Len(suffixes[k]))
         ELSE StemFromShortGuard(word, k + 1)

\* the for loop of stem, from suffix number k on
RECURSIVE StemFrom(_, _)
StemFrom(word, k) ==
    IF k > Len(suffixes) THEN word
    ELSE IF endsWith(word, suffixes[k]) /\ Len(word) > Len(suffixes[k]) + 2
         THEN SubSeq(word, 1, Len(word) - Len(suffixes[k]))
         ELSE StemFrom(word, k + 1)

stem(word) == StemFrom(toLowerCase(word), 1)

\* preprocessText without the stopword filter of line 68
preprocessTextKeepsStopwords(text) ==
    LET cleaned   == ReplacePunctuation(toLowerCase(text))
        tokens    == Tokenize(cleaned)
        kept      == SelectSeq(tokens, LAMBDA token : Len(token) > 2)
    IN  [i \in DOMAIN kept |-> stem(kept[i])]

preprocessText(text) ==
    LET cleaned   == ReplacePunctuation(toLowerCase(text))
        tokens    == Tokenize(cleaned)
        kept      == SelectSeq(tokens, LAMBDA token : token \notin STOPWORDS /\ Len(token) > 2)
    IN  [i \in DOMAIN kept |-> stem(kept[i])]

-----------------------------------------------------------------------------
(* Numbers                                                                 *)

\* resolution of the fixed-point numbers: a value x stands for x / SCALE
SCALE == 10 ^ 3

\* the value NaN (every other number of the model is >= 0)
NaN == -1

\* Math.log(k) for k = 1, 2, ..., in units of 1/SCALE
LnTable == <<0, 693, 1099, 1386, 1609, 1792, 1946, 2079, 2197, 2303, 2398, 2485>>

\* Math.log(n / d) for 1 <= d <= n
Ln(n, d) == LnTable[n] - LnTable[d]

\* a * b of two values, one of them in units of 1/SCALE
Mul(a, b) == IF a = NaN \/ b = NaN THEN NaN ELSE (a * b) \div SCALE

\* a + b
Add(a, b) == IF a = NaN \/ b = NaN THEN NaN ELSE a + b

\* a * b kept exact: the product of two values in units of 1/SCALE is in
\* units of 1/SCALE^2
MulExact(a, b) == IF a = NaN \/ b = NaN THEN NaN ELSE a * b

\* a > 0, which is false of NaN
Positive(a) == a # NaN /\ a > 0

\* the integer square root by bisection: lo * lo <= x < hi * hi
RECURSIVE SqrtBetween(_, _, _)
SqrtBetween(x, lo, hi) ==
    IF hi - lo <= 1 THEN lo
    ELSE LET mid == (lo + hi) \div 2
         IN  IF mid * mid <= x THEN SqrtBetween(x, mid, hi) ELSE SqrtBetween(x, lo, mid)

\* Math.sqrt(x) of x in units of 1/SCALE^2, in units of 1/SCALE
Sqrt(x) == IF x = NaN THEN NaN ELSE SqrtBetween(x, 0, 46340)

\* the k next decimal digits of r / b, for 0 <= r < b
RECURSIVE DivDigits(_, _, _)
DivDigits(r, b, k) ==
    IF k = 0 THEN 0
    ELSE ((r * 10) \div b) * (10 ^ (k - 1)) + DivDigits((r * 10) % b, b, k - 1)

\* a / b of two numbers of the same unit, b > 0, in units of 1/SCALE (the
\* three decimal digits of SCALE)
Div(a, b) ==
    IF a = NaN \/ b = NaN THEN NaN
    ELSE (a \div b) * SCALE + DivDigits(a % b, b, 3)

-----------------------------------------------------------------------------
(* Objects used as maps                                                    *)

constructorKey == <<"c","o","n","s","t","r","u","c","t","o","r">>

protoKey == <<"_","_","p","r","o","t","o","_","_">>

\* The lower-case names that Object.prototype answers for every object {}:
\* obj.constructor is the function Object (an inherited, writable data
\* property) and obj.__proto__ is Object.prototype (an accessor whose setter
\* ignores a value that is neither an object nor null).  The other names of
\* Object.prototype hold an upper-case letter and no token equals them.
ProtoKeys == {constructorKey, protoKey}

\* Object.keys(obj) as a set, obj a sequence of [term, val] entries
OwnKeys(obj) == {obj[i].term : i \in DOMAIN obj}

\* obj[term] for an own key
Get(obj, term) == obj[CHOOSE i \in DOMAIN obj : obj[i].term = term].val

\* the tokens in order of first occurrence
RECURSIVE DistinctInOrder(_)
DistinctInOrder(tokens) ==
    IF tokens = <<>> THEN <<>>
    ELSE LET front == DistinctInOrder(SubSeq(tokens, 1, Len(tokens) - 1))
             last  == tokens[Len(tokens)]
         IN  IF last \in Range(front) THEN front ELSE Append(front, last)

\* a canonical array index ("0", "17", not "007"); the digit strings of the
\* inputs have fewer than 10 characters, all below 2^32 - 1
IsArrayIndex(key) ==
    /\ Len(key) \in 1..9
    /\ \A i \in DOMAIN key : key[i] \in Range(Digits)
    /\ (Len(key) = 1 \/ key[1] # "0")

RECURSIVE IndexValue(_)
IndexValue(key) ==
    IF key = <<>> THEN 0
    ELSE 10 * IndexValue(SubSeq(key, 1, Len(key) - 1))
         + (CHOOSE d \in 0..9 : Digits[d + 1] = key[Len(key)])

\* ascending numeric order of array-index keys
RECURSIVE SortIndexKeys(_)
SortIndexKeys(keys) ==
    IF keys = <<>> THEN <<>>
    ELSE LET m == CHOOSE i \in DOMAIN keys :
                      \A j \in DOMAIN keys : IndexValue(keys[i]) <= IndexValue(keys[j])
         IN  <<keys[m]>> \o SortIndexKeys(SubSeq(keys, 1, m - 1) \o SubSeq(keys, m + 1, Len(keys)))

\* own property order of an object whose string keys were created in the
\* order `created`: array indices ascending, then the others as created
OwnKeyOrder(created) ==
    SortIndexKeys(SelectSeq(created, IsArrayIndex))
        \o SelectSeq(created, LAMBDA k : ~IsArrayIndex(k))

-----------------------------------------------------------------------------
(* Weighting                                                               *)

Count(token, tokens) == Cardinality({i \in DOMAIN tokens : tokens[i] = token})

\* calculateTF.  tf[token] = (tf[token] || 0) + 1 reads through the
\* prototype: for "constructor" it reads the function Object, so the entry
\* becomes a string and the division makes it NaN; for "__proto__" the
\* assignment runs the setter of Object.prototype, which ignores the string,
\* so no own property is ever created.
calculateTF(tokens) ==
    LET totalTokens == Len(tokens)
        created     == SelectSeq(DistinctInOrder(tokens), LAMBDA t : t # protoKey)
        keys        == OwnKeyOrder(created)
    IN  [i \in DOMAIN keys |->
            [term |-> keys[i],
             val  |-> IF keys[i] = constructorKey THEN NaN
                      ELSE Div(Count(keys[i], tokens), totalTokens)]]

\* doc.termFreq[term] > 0 : undefined > 0, NaN > 0 and (function) > 0 are false
HasPositiveTF(doc, term) ==
    term \in OwnKeys(doc.termFreq) /\ Positive(Get(doc.termFreq, term))

\* calculateIDF(term) with the cache `cache` and the corpus `corp`: the value
\* returned and the cache afterwards.  For a key of Object.prototype the read
\* idfCache[term] is not undefined: the inherited object is returned, which
\* the multiplication of calculateTFIDF turns into NaN.
calculateIDF(term, cache, corp) ==
    IF term \in DOMAIN cache THEN [idf |-> cache[term], cache |-> cache]
    ELSE IF term \in ProtoKeys THEN [idf |-> NaN, cache |-> cache]
    ELSE LET docsWithTerm == Cardinality({i \in DOMAIN corp : HasPositiveTF(corp[i], term)})
             idf          == IF docsWithTerm > 0 THEN Ln(Len(corp), docsWithTerm) ELSE 0
         IN  [idf |-> idf, cache |-> (term :> idf) @@ cache]

\* calculateTFIDF(termFreq): the vector and the cache afterwards
RECURSIVE calculateTFIDF(_, _, _)
calculateTFIDF(termFreq, cache, corp) ==
    IF termFreq = <<>> THEN [vec |-> <<>>, cache |-> cache]
    ELSE LET n     == Len(termFreq)
             front == calculateTFIDF(SubSeq(termFreq, 1, n - 1), cache, corp)
             r     == calculateIDF(termFreq[n].term, front.cache, corp)
         IN  [vec   |-> Append(front.vec,
                               [term |-> termFreq[n].term, val |-> Mul(termFreq[n].val, r.idf)]),
              cache |-> r.cache]

\* norm += val * val over Object.values(vec)
RECURSIVE SumSquares(_)
SumSquares(vec) ==
    IF vec = <<>> THEN 0
    ELSE Add(SumSquares(SubSeq(vec, 1, Len(vec) - 1)),
             MulExact(vec[Len(vec)].val, vec[Len(vec)].val))

\* dotProduct += vec1[term] * vec2[term] over the common terms
RECURSIVE DotProduct(_, _)
DotProduct(common, vec2) ==
    IF common = <<>> THEN 0
    ELSE Add(DotProduct(SubSeq(common, 1, Len(common) - 1), vec2),
             MulExact(common[Len(common)].val, Get(vec2, common[Len(common)].term)))

cosineSimilarity(vec1, vec2) ==
    LET commonTerms == SelectSeq(vec1, LAMBDA e : e.term \in OwnKeys(vec2))
        dotProduct  == DotProduct(commonTerms, vec2)
        norm1       == Sqrt(SumSquares(vec1))
        norm2       == Sqrt(SumSquares(vec2))
    IN  IF commonTerms = <<>> THEN 0
        ELSE IF norm1 = 0 \/ norm2 = 0 THEN 0
        ELSE Div(dotProduct, MulExact(norm1, norm2))

-----------------------------------------------------------------------------
(* Inverted index                                                          *)

\* the inner forEach without the includes test of line 154
RECURSIVE IndexTermsNoIncludes(_, _, _, _)
IndexTermsNoIncludes(index, id, keys, k) ==
    IF k > Len(keys) THEN [index |-> index, raised |-> FALSE]
    ELSE LET term == keys[k]
         IN  IF term \notin DOMAIN index /\ term \in ProtoKeys
             THEN [index |-> index, raised |-> TRUE]
             ELSE LET list == IF term \in DOMAIN index THEN index[term] ELSE <<>>
                  IN  IndexTermsNoIncludes((term :> Append(list, id)) @@ index, id, keys, k + 1)

\* the inner forEach of buildInvertedIndex for one document, over the keys
\* of its termFreq from number k on.  !invertedIndex[term] is false for a
\* key of Object.prototype, so no list is created for it and
\* invertedIndex[term].includes is not a function: a TypeError.
RECURSIVE IndexTerms(_, _, _, _)
IndexTerms(index, id, keys, k) ==
    IF k > Len(keys) THEN [index |-> index, raised |-> FALSE]
    ELSE LET term == keys[k]
         IN  IF term \notin DOMAIN index /\ term \in ProtoKeys
             THEN [index |-> index, raised |-> TRUE]
             ELSE LET list == IF term \in DOMAIN index THEN index[term] ELSE <<>>
                      next == IF id \in Range(list) THEN list ELSE Append(list, id)
                  IN  IndexTerms((term :> next) @@ index, id, keys, k + 1)

\* the outer forEach of buildInvertedIndex, over the documents from number
\* d on; a TypeError ends it
RECURSIVE IndexDocs(_, _, _)
IndexDocs(index, corp, d) ==
    IF d > Len(corp) THEN [index |-> index, raised |-> FALSE]
    ELSE LET keys == [i \in DOMAIN corp[d].termFreq |-> corp[d].termFreq[i].term]
             r    == IndexTerms(index, corp[d].id, keys, 1)
         IN  IF r.raised THEN r ELSE IndexDocs(r.index, corp, d + 1)

\* buildInvertedIndex(): the index it leaves and whether it threw
buildInvertedIndex(corp) == IndexDocs(<<>>, corp, 1)

-----------------------------------------------------------------------------
(* Search                                                                  *)

\* slice(0, 5)
TopK == 5

\* candidateDocIds: a Set keeps its members in order of first insertion
RECURSIVE Candidates(_, _)
Candidates(queryTokens, index) ==
    IF queryTokens = <<>> THEN <<>>
    ELSE LET token == queryTokens[Len(queryTokens)]
             front == Candidates(SubSeq(queryTokens, 1, Len(queryTokens) - 1), index)
         IN  IF token \in DOMAIN index
             THEN front \o SelectSeq(index[token],
                      LAMBDA id : id \notin Range(front))
             ELSE front

\* invertedIndex[token].forEach is not a function when the token is a key of
\* Object.prototype and not an own key of the index
GatherRaises(queryTokens, index) ==
    \E i \in DOMAIN queryTokens :
        queryTokens[i] \notin DOMAIN index /\ queryTokens[i] \in ProtoKeys

\* a lookup that gives the last stored document with the id
FindLast(corp, docId) ==
    IF \E i \in DOMAIN corp : corp[i].id = docId
    THEN <<corp[CHOOSE i \in DOMAIN corp :
                  corp[i].id = docId /\ \A j \in (i + 1)..Len(corp) : corp[j].id # docId]>>
    ELSE <<>>

\* corpus.find(d => d.id === docId)
Find(corp, docId) ==
    IF \E i \in DOMAIN corp : corp[i].id = docId
    THEN <<corp[CHOOSE i \in DOMAIN corp :
                  corp[i].id = docId /\ \A j \in 1..(i - 1) : corp[j].id # docId]>>
    ELSE <<>>

\* candidateDocIds.forEach(...): the results pushed and the cache afterwards
RECURSIVE Score(_, _, _, _)
Score(ids, queryTFIDF, cache, corp) ==
    IF ids = <<>> THEN [results |-> <<>>, cache |-> cache]
    ELSE LET front == Score(SubSeq(ids, 1, Len(ids) - 1), queryTFIDF, cache, corp)
             found == Find(corp, ids[Len(ids)])
         IN  IF found = <<>> THEN front
             ELSE LET doc        == found[1]
                      d          == calculateTFIDF(doc.termFreq, front.cache, corp)
                      similarity == cosineSimilarity(queryTFIDF, d.vec)
                  IN  [results |->
                          IF Positive(similarity)
                          THEN Append(front.results,
                                      [id |-> doc.id, title |-> doc.title,
                                       content |-> doc.content, score |-> similarity])
                          ELSE front.results,
                       cache |-> d.cache]

\* the sort with the comparator turned round: (a, b) => a.score - b.score
RECURSIVE SortAscending(_)
SortAscending(results) ==
    IF results = <<>> THEN <<>>
    ELSE LET front  == SortAscending(SubSeq(results, 1, Len(results) - 1))
             last   == results[Len(results)]
             before == Cardinality({i \in DOMAIN front : front[i].score <= last.score})
         IN  SubSeq(front, 1, before) \o <<last>> \o SubSeq(front, before + 1, Len(front))

\* a sort that puts an element before the elements equal to it
RECURSIVE SortTiesReversed(_)
SortTiesReversed(results) ==
    IF results = <<>> THEN <<>>
    ELSE LET front  == SortTiesReversed(SubSeq(results, 1, Len(results) - 1))
             last   == results[Len(results)]
             before == Cardinality({i \in DOMAIN front : front[i].score > last.score})
         IN  SubSeq(front, 1, before) \o <<last>> \o SubSeq(front, before + 1, Len(front))

\* results.sort((a, b) => b.score - a.score): a stable sort, so an element
\* goes behind the elements that are not smaller
RECURSIVE SortByScore(_)
SortByScore(results) ==
    IF results = <<>> THEN <<>>
    ELSE LET front  == SortByScore(SubSeq(results, 1, Len(results) - 1))
             last   == results[Len(results)]
             before == Cardinality({i \in DOMAIN front : front[i].score >= last.score})
         IN  SubSeq(front, 1, before) \o <<last>> \o SubSeq(front, before + 1, Len(front))

\* slice(0, n)
Slice(seq, n) == SubSeq(seq, 1, IF Len(seq) < n THEN Len(seq) ELSE n)

\* searchDocuments scoring the documents passed to it: of the stored
\* documents only those whose id is in `documents`
searchDocumentsOverPool(q, documents, cache, index, corp) ==
    LET pool        == SelectSeq(corp,
                           LAMBDA d : \E i \in DOMAIN documents : documents[i].id = d.id)
        queryTokens == preprocessText(q)
        queryTF     == calculateTF(queryTokens)
        qv          == calculateTFIDF(queryTF, cache, pool)
    IN  IF GatherRaises(queryTokens, index)
        THEN [ret |-> <<>>, cache |-> qv.cache, raised |-> TRUE]
        ELSE LET scored == Score(Candidates(queryTokens, index), qv.vec, qv.cache, pool)
             IN  [ret    |-> Slice(SortByScore(scored.results), TopK),
                  cache  |-> scored.cache,
                  raised |-> FALSE]

\* searchDocuments(query, documents) on a non-empty corpus: what it returns,
\* the cache it leaves and whether it threw
searchDocuments(q, documents, cache, index, corp) ==
    LET queryTokens == preprocessText(q)
        queryTF     == calculateTF(queryTokens)
        qv          == calculateTFIDF(queryTF, cache, corp)
    IN  IF GatherRaises(queryTokens, index)
        THEN [ret |-> <<>>, cache |-> qv.cache, raised |-> TRUE]
        ELSE LET scored == Score(Candidates(queryTokens, index), qv.vec, qv.cache, corp)
             IN  [ret    |-> Slice(SortByScore(scored.results), TopK),
                  cache  |-> scored.cache,
                  raised |-> FALSE]

-----------------------------------------------------------------------------
(* Inputs                                                                  *)

\* the largest corpus the model builds
MaxDocs == 3

DocCats ==
    [id |-> "1", title |-> <<"C","a","t","s">>,
     content |-> <<"c","a","t","s"," ","a","r","e"," ","f","u","n"," ","p","e","t","s">>]

DocDogs ==
    [id |-> "2", title |-> <<"D","o","g","s">>,
     content |-> <<"D","o","g","s"," ","a","r","e"," ","l","o","y","a","l"," ",
                   "p","e","t","s","!">>]

\* a second document under the id of DocCats
DocDogsAgain ==
    [id |-> "1", title |-> <<"D","o","g","s">>, content |-> <<"d","o","g","s">>]

\* a document with the word "constructor" between two other words
DocNotes ==
    [id |-> "3", title |-> <<"N","o","t","e","s">>,
     content |-> <<"p","e","t","s"," ","c","o","n","s","t","r","u","c","t","o","r"," ",
                   "c","a","t","s">>]

Documents == {DocCats, DocDogs, DocDogsAgain, DocNotes}

QueryCats == <<"c","a","t","s">>

QueryDogs == <<"D","o","g","s">>

\* a query of stopwords only
QueryThe == <<"t","h","e">>

QueryConstructor == <<"c","o","n","s","t","r","u","c","t","o","r">>

Queries == {QueryCats, QueryDogs, QueryThe, QueryConstructor}

\* values of the `documents` argument of searchDocuments
DocumentPools == {<<>>, <<DocCats, DocDogs>>}

-----------------------------------------------------------------------------
(* The exported functions                                                  *)

NoStats == [totalDocuments |-> 0, totalTerms |-> 0, avgDocumentLength |-> 0]

\* the size of the corpus and whether the cache has an entry
Held == [docs |-> Len(corpus), cached |-> idfCache # <<>>]

\* the Index page as mounted: the four useState values and no setTimeout
\* callback pending
NewPage ==
    [query         |-> <<>>,
     documents     |-> <<>>,
     searchResults |-> <<>>,
     isSearching   |-> FALSE,
     timers        |-> <<>>]

Init ==
    /\ corpus = <<>>
    /\ vocabulary = {}
    /\ idfCache = <<>>
    /\ invertedIndex = <<>>
    /\ op = "init"
    /\ raised = FALSE
    /\ query = <<>>
    /\ ret = <<>>
    /\ stats = NoStats
    /\ atCall = Held
    /\ arg = <<>>
    /\ val = <<>>
    /\ page = NewPage

\* the ProcessedDocument addDocument builds
Processed(doc) ==
    LET tokens == preprocessText(doc.content \o <<" ">> \o doc.title)
    IN  [id |-> doc.id, title |-> doc.title, content |-> doc.content,
         tokens |-> tokens, termFreq |-> calculateTF(tokens)]

\* addDocument without line 182: the cache is not invalidated
AddDocumentKeepsCache(doc) ==
    LET processedDoc == Processed(doc)
        built        == buildInvertedIndex(Append(corpus, processedDoc))
    IN  /\ corpus' = Append(corpus, processedDoc)
        /\ vocabulary' = vocabulary \cup Range(processedDoc.tokens)
        /\ idfCache' = idfCache
        /\ invertedIndex' = built.index
        /\ op' = "addDocument"
        /\ raised' = built.raised
        /\ query' = <<>>
        /\ ret' = <<>>
        /\ stats' = NoStats
        /\ atCall' = Held
        /\ UNCHANGED <<arg, val>>

\* addDocument with line 179 replacing the vocabulary by the new tokens
AddDocumentResetsVocabulary(doc) ==
    LET processedDoc == Processed(doc)
        built        == buildInvertedIndex(Append(corpus, processedDoc))
    IN  /\ corpus' = Append(corpus, processedDoc)
        /\ vocabulary' = Range(processedDoc.tokens)
        /\ idfCache' = <<>>
        /\ invertedIndex' = built.index
        /\ op' = "addDocument"
        /\ raised' = built.raised
        /\ query' = <<>>
        /\ ret' = <<>>
        /\ stats' = NoStats
        /\ atCall' = Held
        /\ UNCHANGED <<arg, val>>

\* addDocument storing the document in the place of the first stored one
\* with its id, when there is one
AddDocumentReplacesSameId(doc) ==
    LET processedDoc == Processed(doc)
        same         == {i \in DOMAIN corpus : corpus[i].id = doc.id}
        first        == CHOOSE i \in same : \A j \in same : i <= j
        stored       == IF same = {} THEN Append(corpus, processedDoc)
                        ELSE [corpus EXCEPT ![first] = processedDoc]
        built        == buildInvertedIndex(stored)
    IN  /\ corpus' = stored
        /\ vocabulary' = vocabulary \cup Range(processedDoc.tokens)
        /\ idfCache' = <<>>
        /\ invertedIndex' = built.index
        /\ op' = "addDocument"
        /\ raised' = built.raised
        /\ query' = <<>>
        /\ ret' = <<>>
        /\ stats' = NoStats
        /\ atCall' = Held
        /\ UNCHANGED <<arg, val>>

\* addDocument(doc).  When buildInvertedIndex throws, the document, the
\* vocabulary and the emptied cache stay as they are and the index stays as
\* far as it was rebuilt.
AddDocument(doc) ==
    LET processedDoc == Processed(doc)
        built        == buildInvertedIndex(Append(corpus, processedDoc))
    IN  /\ corpus' = Append(corpus, processedDoc)
        /\ vocabulary' = vocabulary \cup Range(processedDoc.tokens)
        /\ idfCache' = <<>>
        /\ invertedIndex' = built.index
        /\ op' = "addDocument"
        /\ raised' = built.raised
        /\ query' = <<>>
        /\ ret' = <<>>
        /\ stats' = NoStats
        /\ atCall' = Held
        /\ UNCHANGED <<arg, val>>

\* searchDocuments without the early return of line 197
SearchDocumentsNoEarlyReturn(q, documents) ==
    LET r == searchDocuments(q, documents, idfCache, invertedIndex, corpus)
    IN  /\ idfCache' = r.cache
        /\ op' = "searchDocuments"
        /\ raised' = r.raised
        /\ query' = q
        /\ ret' = r.ret
        /\ stats' = NoStats
        /\ atCall' = Held
        /\ UNCHANGED <<arg, val>>
        /\ UNCHANGED <<corpus, vocabulary, invertedIndex>>

\* searchDocuments(q, documents)
SearchDocuments(q, documents) ==
    LET r == IF Len(corpus) = 0
             THEN [ret |-> <<>>, cache |-> idfCache, raised |-> FALSE]
             ELSE searchDocuments(q, documents, idfCache, invertedIndex, corpus)
    IN  /\ idfCache' = r.cache
        /\ op' = "searchDocuments"
        /\ raised' = r.raised
        /\ query' = q
        /\ ret' = r.ret
        /\ stats' = NoStats
        /\ atCall' = Held
        /\ UNCHANGED <<arg, val>>
        /\ UNCHANGED <<corpus, vocabulary, invertedIndex>>

\* corpus.reduce((sum, doc) => sum + doc.tokens.length, 0)
RECURSIVE TotalTokens(_)
TotalTokens(corp) ==
    IF corp = <<>> THEN 0
    ELSE TotalTokens(SubSeq(corp, 1, Len(corp) - 1)) + Len(corp[Len(corp)].tokens)

\* getCorpusStats counting ids instead of corpus entries
getCorpusStatsByIds(corp, vocab) ==
    LET ids == {corp[i].id : i \in DOMAIN corp}
    IN  [totalDocuments    |-> Cardinality(ids),
         totalTerms        |-> Cardinality(vocab),
         avgDocumentLength |-> IF Cardinality(ids) > 0
                               THEN Div(TotalTokens(corp), Cardinality(ids))
                               ELSE 0]

getCorpusStats(corp, vocab) ==
    [totalDocuments    |-> Len(corp),
     totalTerms        |-> Cardinality(vocab),
     avgDocumentLength |-> IF Len(corp) > 0
                           THEN Div(TotalTokens(corp), Len(corp))
                           ELSE 0]

GetCorpusStats ==
    /\ stats' = getCorpusStats(corpus, vocabulary)
    /\ op' = "getCorpusStats"
    /\ raised' = FALSE
    /\ query' = <<>>
    /\ ret' = <<>>
    /\ atCall' = Held
    /\ UNCHANGED <<arg, val>>
    /\ UNCHANGED <<corpus, vocabulary, idfCache, invertedIndex>>

\* clearCorpus without line 266: the index is kept
ClearCorpusKeepsIndex ==
    /\ corpus' = <<>>
    /\ vocabulary' = {}
    /\ idfCache' = <<>>
    /\ invertedIndex' = invertedIndex
    /\ op' = "clearCorpus"
    /\ raised' = FALSE
    /\ query' = <<>>
    /\ ret' = <<>>
    /\ stats' = NoStats
    /\ atCall' = Held
    /\ UNCHANGED <<arg, val>>

ClearCorpus ==
    /\ corpus' = <<>>
    /\ vocabulary' = {}
    /\ idfCache' = <<>>
    /\ invertedIndex' = <<>>
    /\ op' = "clearCorpus"
    /\ raised' = FALSE
    /\ query' = <<>>
    /\ ret' = <<>>
    /\ stats' = NoStats
    /\ atCall' = Held
    /\ UNCHANGED <<arg, val>>

Next ==
    \/ \E doc \in Documents : Len(corpus) < MaxDocs /\ AddDocument(doc) /\ UNCHANGED page
    \/ \E q \in Queries, documents \in DocumentPools :
          SearchDocuments(q, documents) /\ UNCHANGED page
    \/ GetCorpusStats /\ UNCHANGED page
    \/ ClearCorpus /\ UNCHANGED page

Spec == Init /\ [][Next]_vars

-----------------------------------------------------------------------------
(* A larger corpus of short documents, each under an id of its own         *)

\* the largest corpus of the ranking specification
MaxRankDocs == 7

\* ids in the order of adding, as Date.now().toString() gives them
RankIds == <<"101", "102", "103", "104", "105", "106", "107", "108", "109">>

RankTexts ==
    {[title |-> <<"C","a","t","s">>, content |-> <<"c","a","t","s">>],
     [title |-> <<"D","o","g","s">>, content |-> <<"d","o","g","s">>]}

QueryCatsCatsDogs == <<"c","a","t","s"," ","c","a","t","s"," ","d","o","g","s">>

RankQueries == {QueryCats, QueryCatsCatsDogs}

NextRank ==
    \/ \E t \in RankTexts :
          /\ Len(corpus) < MaxRankDocs
          /\ AddDocument([id |-> RankIds[Len(corpus) + 1], title |-> t.title,
                          content |-> t.content])
          /\ UNCHANGED page
    \/ \E q \in RankQueries : SearchDocuments(q, <<>>) /\ UNCHANGED page
    \/ GetCorpusStats /\ UNCHANGED page
    \/ ClearCorpus /\ UNCHANGED page

SpecRank == Init /\ [][NextRank]_vars

-----------------------------------------------------------------------------
(* The two documents of the documented scenario, and a document searched   *)
(* by its own text                                                         *)

ScenarioCats ==
    [id |-> "1", title |-> <<"C","a","t","s">>,
     content |-> <<"C","a","t","s"," ","a","r","e"," ","g","r","e","a","t"," ",
                   "p","e","t","s"," ","a","n","d"," ","c","a","t","s"," ",
                   "a","r","e"," ","f","u","n">>]

ScenarioDogs ==
    [id |-> "2", title |-> <<"D","o","g","s">>,
     content |-> <<"D","o","g","s"," ","a","r","e"," ","l","o","y","a","l"," ",
                   "p","e","t","s"," ","a","n","d"," ","d","o","g","s"," ",
                   "a","r","e"," ","f","r","i","e","n","d","s">>]

ScoreDocuments == {ScenarioCats, ScenarioDogs, DocDogs, DocNotes}

\* the text addDocument normalizes for DocDogs: its content, a space, its title
QueryDogsText == DocDogs.content \o <<" ">> \o DocDogs.title

\* queries that normalize to no token: the empty string, punctuation only,
\* stopwords only, tokens of length <= 2 only
QueryEmpty == <<>>

QueryPunctuation == <<"?","!"," ","-">>

QueryStopwords == <<"A","r","e"," ","t","h","e","y">>

QueryShort == <<"o","k"," ","g","o">>

ZeroTokenQueries == {QueryEmpty, QueryPunctuation, QueryStopwords, QueryShort}

ScoreQueries == {QueryCats, QueryDogsText} \cup ZeroTokenQueries

NextScore ==
    \/ \E doc \in ScoreDocuments : Len(corpus) < MaxDocs /\ AddDocument(doc) /\ UNCHANGED page
    \/ \E q \in ScoreQueries : SearchDocuments(q, <<>>) /\ UNCHANGED page
    \/ GetCorpusStats /\ UNCHANGED page
    \/ ClearCorpus /\ UNCHANGED page

SpecScore == Init /\ [][NextScore]_vars

-----------------------------------------------------------------------------
(* The functions of the text pipeline called on their own.  They keep no   *)
(* state, so a behaviour is one call on one input.                         *)

\* the largest number of words of a text
MaxWords == 2

TextWords ==
    {<<"T","h","e">>, <<"t","h","e","s","e","s">>, <<"b","u","s">>,
     <<"c","o","n","s","t","r","u","c","t","o","r">>, <<"_","_","p","r","o","t","o","_","_">>,
     <<"m","e","e","t","i","n","g","s">>}

\* what stands between two words of a text
Separators == {" ", "_", "-"}

\* the texts of n words
RECURSIVE TextsOf(_)
TextsOf(n) ==
    IF n = 1 THEN TextWords
    ELSE {t \o <<c>> \o w : t \in TextsOf(n - 1), c \in Separators, w \in TextWords}

Texts == UNION {TextsOf(n) : n \in 1..MaxWords}

\* what precedes the suffixes of the words stem is called with
StemRoots == {<<"t">>, <<"t","i">>, <<"s","i","n">>, <<"h","a","p","p">>}

Endings == Range(suffixes) \cup {<<>>}

\* a root and up to two suffixes
StemWords == {r \o e1 \o e2 : r \in StemRoots, e1 \in Endings, e2 \in Endings}

Stem(word) ==
    /\ op = "init"
    /\ op' = "stem"
    /\ arg' = word
    /\ val' = stem(word)
    /\ UNCHANGED <<corpus, vocabulary, idfCache, invertedIndex, raised, query, ret, stats,
                   atCall>>

PreprocessText(text) ==
    /\ op = "init"
    /\ op' = "preprocessText"
    /\ arg' = text
    /\ val' = preprocessText(text)
    /\ UNCHANGED <<corpus, vocabulary, idfCache, invertedIndex, raised, query, ret, stats,
                   atCall>>

CalculateTF(tokens) ==
    /\ op = "init"
    /\ op' = "calculateTF"
    /\ arg' = tokens
    /\ val' = calculateTF(tokens)
    /\ UNCHANGED <<corpus, vocabulary, idfCache, invertedIndex, raised, query, ret, stats,
                   atCall>>

NextText ==
    \/ \E word \in StemWords : Stem(word) /\ UNCHANGED page
    \/ \E text \in Texts : PreprocessText(text) /\ UNCHANGED page
    \/ \E text \in Texts : CalculateTF(preprocessText(text)) /\ UNCHANGED page

SpecText == Init /\ [][NextText]_vars

-----------------------------------------------------------------------------
(* The Index page: uploads, crawls and searches through a 500 ms timer     *)

\* the most documents uploaded
MaxPageDocs == 2

\* the most setTimeout callbacks pending at a time
MaxTimers == 2

QueryBlank == <<" ">>

\* what the user types into the search box
PageQueries == {QueryEmpty, QueryBlank, QueryCats, QueryDogs}

Keys == {"Enter", "a"}

\* a successful result of simulateCrawl as startCrawling maps it to a document
CrawledPage ==
    [id |-> "201x", title |-> <<"P","e","t","s">>, content |-> <<"p","e","t","s">>]

\* the documents of a finished crawl: no page or one page crawled with success
CrawlOutcomes == {<<>>, <<CrawledPage>>}

\* !str.trim()
Blank(str) == \A i \in DOMAIN str : IsSpace(str[i])

\* handleSearch as the current render defines it: it starts a timer whose
\* callback holds this render's query and documents
handleSearch ==
    IF Blank(page.query) \/ page.documents = <<>>
    THEN UNCHANGED vars
    ELSE /\ page' = [page EXCEPT !.isSearching = TRUE,
                                 !.timers = Append(@, [query     |-> page.query,
                                                       documents |-> page.documents])]
         /\ UNCHANGED <<corpus, vocabulary, idfCache, invertedIndex, op, raised, query, ret,
                        stats, atCall, arg, val>>

\* onChange of the search box
SetQuery(q) ==
    /\ page' = [page EXCEPT !.query = q]
    /\ UNCHANGED <<corpus, vocabulary, idfCache, invertedIndex, op, raised, query, ret,
                   stats, atCall, arg, val>>

\* a click on the Search button, which is disabled while isSearching
ClickSearch ==
    /\ ~(Blank(page.query) \/ page.documents = <<>> \/ page.isSearching)
    /\ Len(page.timers) < MaxTimers
    /\ handleSearch

\* handleKeyPress(e)
HandleKeyPress(key) ==
    /\ Len(page.timers) < MaxTimers
    /\ IF key = "Enter" THEN handleSearch ELSE UNCHANGED vars

\* the callback of a timer, the oldest first: all timers wait 500 ms.  When
\* searchDocuments throws, the two setters after it are not reached.
TimerFires ==
    /\ page.timers # <<>>
    /\ SearchDocuments(Head(page.timers).query, Head(page.timers).documents)
    /\ page' = IF raised'
               THEN [page EXCEPT !.timers = Tail(@)]
               ELSE [page EXCEPT !.searchResults = ret',
                                 !.isSearching = FALSE,
                                 !.timers = Tail(@)]

\* handleDocumentUpload(title, content); Date.now() gives the id
HandleDocumentUpload(title, content) ==
    LET newDoc == [id |-> RankIds[Len(corpus) + 1], title |-> title, content |-> content]
    IN  /\ Len(corpus) < MaxPageDocs
        /\ page' = [page EXCEPT !.documents = Append(@, newDoc)]
        /\ AddDocument(newDoc)

\* startCrawling() to its end: without a valid url it returns at once, else
\* it hands the documents of the successful results to onDocumentsFound,
\* which is setDocuments of the page
StartCrawling(valid, documents) ==
    IF ~valid THEN UNCHANGED vars
    ELSE /\ page' = [page EXCEPT !.documents = documents]
         /\ UNCHANGED <<corpus, vocabulary, idfCache, invertedIndex, op, raised, query, ret,
                        stats, atCall, arg, val>>

NextPage ==
    \/ \E q \in PageQueries : SetQuery(q)
    \/ ClickSearch
    \/ \E key \in Keys : HandleKeyPress(key)
    \/ TimerFires
    \/ \E t \in RankTexts : HandleDocumentUpload(t.title, t.content)
    \/ \E valid \in BOOLEAN, documents \in CrawlOutcomes : StartCrawling(valid, documents)

SpecPage == Init /\ [][NextPage]_vars

-----------------------------------------------------------------------------
(* Properties                                                              *)

\* the ids of the stored documents whose termFreq has the key t
IdsWithTerm(t) == {corpus[i].id : i \in {j \in DOMAIN corpus : t \in OwnKeys(corpus[j].termFreq)}}

\* the keys of the termFreq of the stored documents
StoredTerms == UNION {OwnKeys(corpus[i].termFreq) : i \in DOMAIN corpus}

\* two stored documents under one id
HasRepeatedId == \E i, j \in DOMAIN corpus : i < j /\ corpus[i].id = corpus[j].id

\* a stored document with a key of Object.prototype among its tokens
StoresProtoKey == \E i \in DOMAIN corpus : Range(corpus[i].tokens) \cap ProtoKeys # {}

\* C1: in every state the posting lists are those of the terms of the stored
\* documents, and the list of a term holds exactly the ids of the stored
\* documents whose termFreq has the term as a key.
C1_IndexMatchesCorpus ==
    /\ DOMAIN invertedIndex = StoredTerms
    /\ \A t \in DOMAIN invertedIndex : Range(invertedIndex[t]) = IdsWithTerm(t)

\* C2: a search returns at most 5 results, and no result has a higher score
\* than the one before it.
C2_AtMostFiveSorted ==
    (op = "searchDocuments" /\ ~raised) =>
        /\ Len(ret) <= 5
        /\ \A i \in 1..(Len(ret) - 1) : ret[i].score >= ret[i + 1].score

\* C2 witness: a search of a corpus in which more than 5 documents score
\* above 0, returning 5 results of which the first scores higher than the
\* last
C2_Witness ==
    /\ op = "searchDocuments"
    /\ Cardinality({i \in DOMAIN corpus :
           Positive(cosineSimilarity(
               calculateTFIDF(calculateTF(preprocessText(query)), <<>>, corpus).vec,
               calculateTFIDF(corpus[i].termFreq, <<>>, corpus).vec))}) > 5
    /\ Len(ret) = 5
    /\ ret[1].score > ret[5].score

\* the reference search: every stored document, in corpus order, scored
\* against the query vector; those with a score > 0
RECURSIVE ScoreAll(_, _, _)
ScoreAll(corp, k, queryTFIDF) ==
    IF k = 0 THEN <<>>
    ELSE LET front      == ScoreAll(corp, k - 1, queryTFIDF)
             docTFIDF   == calculateTFIDF(corp[k].termFreq, <<>>, corp).vec
             similarity == cosineSimilarity(queryTFIDF, docTFIDF)
         IN  IF Positive(similarity)
             THEN Append(front, [id |-> corp[k].id, title |-> corp[k].title,
                                 content |-> corp[k].content, score |-> similarity])
             ELSE front

\* ... sorted by descending score, the first 5
ReferenceSearch(q, corp) ==
    LET queryTFIDF == calculateTFIDF(calculateTF(preprocessText(q)), <<>>, corp).vec
    IN  Slice(SortByScore(ScoreAll(corp, Len(corp), queryTFIDF)), 5)

\* C3: a search that returns, returns what the reference search returns (the
\* claim on the corpora that store no key of Object.prototype, repeated ids
\* included).
C3_SearchEqualsReference ==
    (op = "searchDocuments" /\ ~raised /\ ~StoresProtoKey)
        => ret = ReferenceSearch(query, corpus)

\* the number of stored documents that have the token t
DocumentFrequency(t) == Cardinality({i \in DOMAIN corpus : t \in Range(corpus[i].tokens)})

\* C4: every entry of idfCache is the IDF of its term in the current corpus:
\* 0 when no stored document has the term, else ln(N / document frequency).
C4_CacheIsCurrent ==
    \A t \in DOMAIN idfCache :
        idfCache[t] = IF DocumentFrequency(t) = 0 THEN 0
                      ELSE Ln(Len(corpus), DocumentFrequency(t))

\* C4 witness: after a search the cache holds a positive IDF, an IDF 0 of a
\* term of every document and an IDF 0 of a term of no document.
C4_Witness ==
    /\ op = "searchDocuments"
    /\ \E t \in DOMAIN idfCache : idfCache[t] > 0
    /\ \E t \in DOMAIN idfCache : DocumentFrequency(t) = Len(corpus) /\ idfCache[t] = 0
    /\ \E t \in DOMAIN idfCache : DocumentFrequency(t) = 0

\* C5: idfCache is empty right after every addDocument and every
\* clearCorpus, and an empty idfCache gets an entry only in searchDocuments.
C5_CacheEmptiedByMutation ==
    [][/\ op' \in {"addDocument", "clearCorpus"} => idfCache' = <<>>
       /\ (idfCache = <<>> /\ idfCache' # <<>>) => op' = "searchDocuments"]_vars

\* C5 witness: an addDocument that found entries in the cache and left none
C5_Witness == op = "addDocument" /\ atCall.cached /\ idfCache = <<>>

\* C6: every key of the termFreq of a stored document is in vocabulary.
C6_TermsInVocabulary == StoredTerms \subseteq vocabulary

\* C6 witness: three stored documents with different sets of terms
C6_Witness ==
    /\ Len(corpus) >= 3
    /\ \A i, j \in DOMAIN corpus :
           i # j => OwnKeys(corpus[i].termFreq) # OwnKeys(corpus[j].termFreq)

\* C7: after clearCorpus the four variables of the engine are those of a
\* new engine and getCorpusStats gives 0, 0 and 0.
C7_ClearIsInitial ==
    op = "clearCorpus" =>
        /\ engine = << <<>>, {}, <<>>, <<>> >>
        /\ getCorpusStats(corpus, vocabulary) =
              [totalDocuments |-> 0, totalTerms |-> 0, avgDocumentLength |-> 0]

\* C7 witness: a clearCorpus called with documents stored and IDFs cached
C7_Witness == op = "clearCorpus" /\ atCall.docs >= 2 /\ atCall.cached

\* C8: on an empty corpus searchDocuments returns the empty sequence, does
\* not throw and leaves idfCache as it is.
C8_EmptyCorpusSearch ==
    [][(op' = "searchDocuments" /\ corpus = <<>>)
           => (ret' = <<>> /\ ~raised' /\ idfCache' = idfCache)]_vars

\* C8 witness: the query "constructor" searched on an empty corpus
C8_Witness == op = "searchDocuments" /\ corpus = <<>> /\ query = QueryConstructor

\* the {i, j} with token j of stored document i
TokenPlaces == UNION {{<<i, j>> : j \in DOMAIN corpus[i].tokens} : i \in DOMAIN corpus}

\* C9: getCorpusStats returns the number of corpus entries, the size of
\* vocabulary, and the token count of all entries divided by their number
\* (to the resolution of the numbers), 0 for an empty corpus.
C9_StatsMatchCorpus ==
    op = "getCorpusStats" =>
        /\ stats.totalDocuments = Len(corpus)
        /\ stats.totalTerms = Cardinality(vocabulary)
        /\ IF Len(corpus) = 0 THEN stats.avgDocumentLength = 0
           ELSE /\ stats.avgDocumentLength * Len(corpus) <= Cardinality(TokenPlaces) * SCALE
                /\ Cardinality(TokenPlaces) * SCALE < (stats.avgDocumentLength + 1) * Len(corpus)

\* C9 witness: statistics of three entries, two of them under one id, whose
\* mean length is not a whole number
C9_Witness ==
    /\ op = "getCorpusStats"
    /\ Len(corpus) = 3
    /\ HasRepeatedId
    /\ stats.avgDocumentLength % SCALE # 0

\* C10: an addDocument under an id already stored does not throw, appends
\* one entry and leaves the earlier entries as they are, and a
\* searchDocuments on a corpus with a repeated id does not throw.
C10_RepeatedIdAccepted ==
    [][/\ (op' = "addDocument" /\ \E i \in DOMAIN corpus : corpus[i].id = corpus'[Len(corpus')].id)
            => /\ ~raised'
               /\ Len(corpus') = Len(corpus) + 1
               /\ SubSeq(corpus', 1, Len(corpus)) = corpus
       /\ (op' = "searchDocuments" /\ HasRepeatedId) => ~raised']_vars

\* C11: a searchDocuments step is the step of searchDocuments with the same
\* query and any other value of the documents argument: the same results,
\* the same cache, the same raise, and the corpus, the vocabulary and the
\* index as they were.
C11_PoolIgnored ==
    [][op' = "searchDocuments"
          => \A documents \in DocumentPools : SearchDocuments(query', documents)]_vars

\* C11 witness: a search with results on a corpus that stores a document no
\* pool holds while a pool holds a document that is not stored
C11_Witness ==
    /\ op = "searchDocuments"
    /\ ret # <<>>
    /\ \E i \in DOMAIN corpus : \A documents \in DocumentPools :
           \A j \in DOMAIN documents : documents[j].id # corpus[i].id
    /\ \E documents \in DocumentPools : \E j \in DOMAIN documents :
           \A i \in DOMAIN corpus : documents[j].id # corpus[i].id

\* C12: no operation throws; no termFreq value of a stored document and no
\* returned score is NaN; a search of an empty corpus or with a query of no
\* tokens returns the empty sequence, and the statistics of an empty corpus
\* are 0.
C12_NoRaiseNoNaN ==
    /\ ~raised
    /\ \A i \in DOMAIN corpus : \A k \in DOMAIN corpus[i].termFreq :
           corpus[i].termFreq[k].val # NaN
    /\ \A i \in DOMAIN ret : ret[i].score # NaN
    /\ (op = "searchDocuments" /\ (atCall.docs = 0 \/ preprocessText(query) = <<>>))
           => ret = <<>>
    /\ (op = "getCorpusStats" /\ atCall.docs = 0) => stats = NoStats

\* stored document i has a token of the query q that some stored document
\* does not have
HasDiscriminatingTerm(i, q) ==
    \E t \in Range(preprocessText(q)) :
        /\ t \in Range(corpus[i].tokens)
        /\ \E j \in DOMAIN corpus : t \notin Range(corpus[j].tokens)

\* C13: on the corpus of the two scenario documents the query "cats" returns
\* document "1" first with a score above 0 and document "2" behind it with a
\* lower score, if at all; and on every corpus without a repeated id, a
\* search returns each stored document that has a query term some stored
\* document lacks, with a score above 0 (unless 5 results are returned).
C13_RelevantScoresPositive ==
    op = "searchDocuments" =>
        /\ (corpus = <<Processed(ScenarioCats), Processed(ScenarioDogs)>> /\ query = QueryCats)
               => /\ ret # <<>>
                  /\ ret[1].id = "1"
                  /\ Positive(ret[1].score)
                  /\ \A k \in 2..Len(ret) : ret[k].score < ret[1].score
        /\ ~HasRepeatedId
               => \A i \in DOMAIN corpus :
                      HasDiscriminatingTerm(i, query)
                          => \/ Len(ret) = TopK
                             \/ \E k \in DOMAIN ret :
                                    ret[k].id = corpus[i].id /\ Positive(ret[k].score)

\* C14: every result a search returns has a score above 0 and not above 1.
C14_ScoreInUnitInterval ==
    \A k \in DOMAIN ret : Positive(ret[k].score) /\ ret[k].score <= SCALE

\* the tokens of the stored documents and of the queries
KnownTerms == vocabulary \cup UNION {Range(preprocessText(q)) : q \in Queries}

\* C15: on a corpus of N >= 1 documents calculateIDF of a term that df
\* stored documents have is a number, not below 0: 0 when df = 0, above 0
\* when 0 < df < N, and 0 when df = N.
C15_IdfSign ==
    Len(corpus) >= 1 =>
        \A term \in KnownTerms :
            LET idf == calculateIDF(term, idfCache, corpus).idf
                df  == DocumentFrequency(term)
            IN  /\ idf # NaN
                /\ idf >= 0
                /\ df = 0 => idf = 0
                /\ (0 < df /\ df < Len(corpus)) => idf > 0
                /\ df = Len(corpus) => idf = 0

\* the TF-IDF vector of stored document i
StoredVector(i) == calculateTFIDF(corpus[i].termFreq, idfCache, corpus).vec

\* C17: the cosineSimilarity of the TF-IDF vector of a stored document with
\* itself is 1 when the vector has an entry that is not 0, and 0 when all
\* its entries are 0 (a vector with a NaN entry is not a vector of numbers).
C17_SelfSimilarity ==
    \A i \in DOMAIN corpus :
        LET v == StoredVector(i)
        IN  (\A k \in DOMAIN v : v[k].val # NaN)
                => cosineSimilarity(v, v) =
                       IF \E k \in DOMAIN v : v[k].val # 0 THEN SCALE ELSE 0

\* C16: calculateTF of a token sequence has exactly the distinct tokens as
\* keys, each with the number of its occurrences divided by the length of
\* the sequence (to the resolution of the numbers); of the empty sequence
\* it is the empty mapping.
C16_RelativeFrequencies ==
    op = "calculateTF" =>
        /\ OwnKeys(val) = Range(arg)
        /\ \A k \in DOMAIN val :
               /\ val[k].val # NaN
               /\ val[k].val * Len(arg) <= Count(val[k].term, arg) * SCALE
               /\ Count(val[k].term, arg) * SCALE < (val[k].val + 1) * Len(arg)
        /\ arg = <<>> => val = <<>>

\* C18: every token preprocessText returns is made of lower-case letters
\* and digits only.
C18_TokensAlphanumeric ==
    op = "preprocessText" =>
        \A i \in DOMAIN val : \A j \in DOMAIN val[i] :
            val[i][j] \in Range(LowerLetters) \cup Range(Digits)

\* suffix number k is one the word ends with and is long enough for
Qualifies(word, k) ==
    endsWith(word, suffixes[k]) /\ Len(word) > Len(suffixes[k]) + 2

\* C19: stem returns the lower-cased word without the first suffix of the
\* list that the word ends with and is more than 2 characters longer than,
\* whatever suffixes before it the word ends with but is too short for; the
\* result then has 3 characters or more; if there is no such suffix it
\* returns the lower-cased word.
C19_FirstMatchWins ==
    op = "stem" =>
        LET word       == toLowerCase(arg)
            qualifying == {k \in DOMAIN suffixes : Qualifies(word, k)}
        IN  IF qualifying = {} THEN val = word
            ELSE LET first == CHOOSE k \in qualifying : \A j \in qualifying : k <= j
                 IN  /\ val \o suffixes[first] = word
                     /\ Len(val) >= 3

\* C19 witness: a word that ends with a suffix it is too short for, stemmed
\* by a later suffix of the list
C19_Witness ==
    /\ op = "stem"
    /\ val # arg
    /\ \E k, j \in DOMAIN suffixes :
           /\ k < j
           /\ endsWith(arg, suffixes[k])
           /\ ~Qualifies(arg, k)
           /\ Qualifies(arg, j)
           /\ val \o suffixes[j] = arg

\* tokens.join(' ')
RECURSIVE Join(_)
Join(tokens) ==
    IF tokens = <<>> THEN <<>>
    ELSE IF Len(tokens) = 1 THEN tokens[1]
    ELSE tokens[1] \o <<" ">> \o Join(Tail(tokens))

\* C20 as stated: the tokens of preprocessText, joined with single spaces
\* and normalized again, are the same tokens.
C20_Idempotent ==
    op = "preprocessText" => preprocessText(Join(val)) = val

\* C20 as amended: the tokens of preprocessText, joined with single spaces
\* and normalized again, are the same tokens less the stopwords among them,
\* in the same order, each stemmed once more: no token is split, joined with
\* its neighbour or dropped as a short token.
C20_SecondPassStemsOnceMore ==
    op = "preprocessText" =>
        LET kept == SelectSeq(val, LAMBDA token : token \notin STOPWORDS)
        IN  preprocessText(Join(val)) = [i \in DOMAIN kept |-> stem(kept[i])]

\* C20 witness: a text of two tokens of which the second pass drops one as
\* a stopword and stems the other further
C20_Witness ==
    /\ op = "preprocessText"
    /\ Len(val) = 2
    /\ Len(preprocessText(Join(val))) = 1
    /\ preprocessText(Join(val))[1] \notin Range(val)

\* C21: addDocument, searchDocuments and getCorpusStats leave every term of
\* the vocabulary in it, the last two leave the vocabulary as it is, and
\* clearCorpus leaves it empty.
C21_VocabularyGrows ==
    [][/\ op' \in {"addDocument", "searchDocuments", "getCorpusStats"}
            => vocabulary \subseteq vocabulary'
       /\ op' \in {"searchDocuments", "getCorpusStats"} => vocabulary' = vocabulary
       /\ op' = "clearCorpus" => vocabulary' = {}]_vars

\* C21 witness: an addDocument on a corpus with documents, after which the
\* vocabulary has a term the new document lacks and a term only it has
C21_Witness ==
    /\ op = "addDocument"
    /\ atCall.docs >= 1
    /\ \E t \in vocabulary : t \notin Range(corpus[Len(corpus)].tokens)
    /\ \E t \in Range(corpus[Len(corpus)].tokens) :
           \A i \in 1..(Len(corpus) - 1) : t \notin Range(corpus[i].tokens)

\* C22: searchDocuments returns the empty sequence and raises nothing for
\* the empty query and for a query of punctuation, stopwords or short tokens
\* only, whatever the corpus
C22_ZeroTokenQuery ==
    (op = "searchDocuments" /\ query \in ZeroTokenQueries)
        => (ret = <<>> /\ ~raised)

\* C22 witness: a search on a corpus of two documents or more with a
\* non-empty query that normalizes to no token
C22_Witness ==
    /\ op = "searchDocuments"
    /\ Len(corpus) >= 2
    /\ query \in ZeroTokenQueries \ {QueryEmpty}
    /\ preprocessText(query) = <<>>
    /\ ret = <<>>

\* C23: addDocument, searchDocuments and getCorpusStats leave every stored
\* document (id, title, content, tokens, termFreq) and the order of the stored
\* documents as they are: the old corpus is a prefix of the new one, and the
\* last two leave the corpus as it is.
C23_StoredDocumentsFrozen ==
    [][/\ op' \in {"addDocument", "searchDocuments", "getCorpusStats"}
            => /\ Len(corpus') >= Len(corpus)
               /\ SubSeq(corpus', 1, Len(corpus)) = corpus
       /\ op' \in {"searchDocuments", "getCorpusStats"} => corpus' = corpus]_vars

\* C23 witness: an addDocument of a document whose id an earlier stored
\* document has, both stored
C23_Witness ==
    /\ op = "addDocument"
    /\ Len(corpus) = atCall.docs + 1
    /\ \E i \in 1..(Len(corpus) - 1) :
           /\ corpus[i].id = corpus[Len(corpus)].id
           /\ corpus[i].content # corpus[Len(corpus)].content

\* the stored documents with the id
PlacesOfId(id) == {p \in DOMAIN corpus : corpus[p].id = id}

\* the stored documents with the id whose termFreq has the term
PlacesOfIdWithTerm(id, term) ==
    {p \in PlacesOfId(id) : \E i \in DOMAIN corpus[p].termFreq :
                                corpus[p].termFreq[i].term = term}

\* the least member of a non-empty set of numbers
Least(S) == CHOOSE p \in S : \A r \in S : p <= r

\* C24: every posting list has pairwise distinct ids, in the order in which
\* the first document carrying each id was added to the corpus
C24_PostingsInCorpusOrder ==
    \A term \in DOMAIN invertedIndex :
        LET list == invertedIndex[term]
        IN  \A i, j \in DOMAIN list :
                i < j => /\ list[i] # list[j]
                         /\ PlacesOfId(list[i]) # {}
                         /\ PlacesOfId(list[j]) # {}
                         /\ Least(PlacesOfId(list[i])) < Least(PlacesOfId(list[j]))

\* C24 (amended): every posting list has pairwise distinct ids, in the order
\* in which the first document that carries the id and has the term was
\* added to the corpus
C24_PostingsInTermOrder ==
    \A term \in DOMAIN invertedIndex :
        LET list == invertedIndex[term]
        IN  /\ \A i \in DOMAIN list : PlacesOfIdWithTerm(list[i], term) # {}
            /\ \A i, j \in DOMAIN list :
                   i < j => /\ list[i] # list[j]
                            /\ Least(PlacesOfIdWithTerm(list[i], term))
                                 < Least(PlacesOfIdWithTerm(list[j], term))

\* C24 witness: a posting list of two ids where the id that comes first was
\* first stored after the other, in a document without the term
C24_Witness ==
    \E term \in DOMAIN invertedIndex :
        LET list == invertedIndex[term]
        IN  /\ Len(list) = 2
            /\ Least(PlacesOfId(list[2])) < Least(PlacesOfId(list[1]))
            /\ Least(PlacesOfIdWithTerm(list[1], term))
                 < Least(PlacesOfIdWithTerm(list[2], term))

\* the candidates of the last search that score above 0, with their scores,
\* in the order the ids entered the candidate set
ScoredCandidates ==
    LET queryTokens == preprocessText(query)
        queryTFIDF  == calculateTFIDF(calculateTF(queryTokens), <<>>, corpus).vec
    IN  Score(Candidates(queryTokens, invertedIndex), queryTFIDF, <<>>, corpus).results

\* C25: every result is a candidate, and a candidate that scores what a
\* returned result scores and entered the candidate set before it is returned
\* too, before that result: ties keep the candidate-set order and the cut to 5
\* keeps the earlier ones
C25_TiesInCandidateOrder ==
    (op = "searchDocuments" /\ ~raised) =>
        LET all == ScoredCandidates
        IN  \A i \in DOMAIN ret :
                \E b \in DOMAIN all :
                    /\ all[b].id = ret[i].id
                    /\ all[b].score = ret[i].score
                    /\ \A a \in 1..(b - 1) :
                           all[a].score = all[b].score
                               => \E j \in 1..(i - 1) : ret[j].id = all[a].id

\* C25 witness: a search with more than 5 candidates of one score above 0,
\* none of them the first stored document, returning the first five of them
\* in candidate-set order
C25_Witness ==
    LET all == ScoredCandidates
    IN  /\ op = "searchDocuments"
        /\ Len(ret) = 5
        /\ ret[1].score = ret[5].score
        /\ Len(all) > 5
        /\ all[6].score = ret[5].score
        /\ \A i \in 1..5 : ret[i].id = all[i].id
        /\ corpus[1].id \notin {all[a].id : a \in DOMAIN all}

\* what searchDocuments(q, documents) returns, and whether it throws, on the
\* stored corpus and index with an empty idfCache
FreshSearch(q) ==
    IF Len(corpus) = 0 THEN [ret |-> <<>>, raised |-> FALSE]
    ELSE LET r == searchDocuments(q, <<>>, <<>>, invertedIndex, corpus)
         IN  [ret |-> r.ret, raised |-> r.raised]

\* C27: every searchDocuments returns (or throws) what it would with an empty
\* idfCache, so what other searches left in the cache does not show, and it
\* leaves corpus, vocabulary and invertedIndex as they are
C27_CacheTransparent ==
    [][op' = "searchDocuments"
          => /\ [ret |-> ret', raised |-> raised'] = FreshSearch(query')
             /\ UNCHANGED <<corpus, vocabulary, invertedIndex>>]_vars

\* C27 witness: a search that found entries of earlier searches in the cache
\* and returned a result
C27_Witness ==
    /\ op = "searchDocuments"
    /\ atCall.cached
    /\ Len(corpus) >= 2
    /\ ret # <<>>

\* C28: every result of a search has the title and the content of the first
\* stored document with its id and that document's score against the query,
\* and no two results have one id; so a later document with a stored id is
\* never what a search returns
C28_FirstOfIdScored ==
    (op = "searchDocuments" /\ ~raised) =>
        LET queryTFIDF == calculateTFIDF(calculateTF(preprocessText(query)), <<>>, corpus).vec
        IN  /\ \A i, j \in DOMAIN ret : i # j => ret[i].id # ret[j].id
            /\ \A i \in DOMAIN ret :
                   /\ PlacesOfId(ret[i].id) # {}
                   /\ LET first == corpus[Least(PlacesOfId(ret[i].id))]
                      IN  /\ ret[i].title = first.title
                          /\ ret[i].content = first.content
                          /\ ret[i].score = cosineSimilarity(queryTFIDF,
                                 calculateTFIDF(first.termFreq, <<>>, corpus).vec)

\* C28 witness: a search that returns a result while a stored document that
\* has a token of the query, stored after another document with its id, is
\* a candidate by its id and no result has that id
C28_Witness ==
    /\ op = "searchDocuments"
    /\ ret # <<>>
    /\ \E p \in DOMAIN corpus :
           /\ p # Least(PlacesOfId(corpus[p].id))
           /\ corpus[p].content # corpus[Least(PlacesOfId(corpus[p].id))].content
           /\ \E t \in Range(preprocessText(query)) :
                  /\ t \in Range(corpus[p].tokens)
                  /\ t \in DOMAIN invertedIndex
                  /\ corpus[p].id \in Range(invertedIndex[t])
           /\ \A i \in DOMAIN ret : ret[i].id # corpus[p].id


\* C29: on a corpus in which every token of the query that some stored
\* document has is a token of every stored document (so on every corpus of
\* one document), searchDocuments returns the empty sequence without an
\* error and the IDF of every token of the query is 0
C29_NoDiscriminationNoResult ==
    (/\ op = "searchDocuments"
     /\ Len(corpus) >= 1
     /\ \A t \in Range(preprocessText(query)) : DocumentFrequency(t) \in {0, Len(corpus)})
        => /\ ~raised
           /\ ret = <<>>
           /\ \A t \in Range(preprocessText(query)) :
                  t \in DOMAIN idfCache /\ idfCache[t] = 0


\* the stored documents as the page holds documents: id, title and content
StoredDocuments ==
    {[id |-> corpus[i].id, title |-> corpus[i].title, content |-> corpus[i].content] :
         i \in DOMAIN corpus}

\* C26: the documents list of the Index page and the corpus of the engine
\* hold the same documents after every upload and every finished crawl, so
\* the documents a crawl found are stored and counted by the engine
C26_CrawledDocumentsIndexed ==
    /\ Range(page.documents) = StoredDocuments
    /\ Len(page.documents) = Len(corpus)

\* C30: at most one timer is pending, isSearching is true while one is, and
\* the step of a timer's callback displays what the query of the search
\* started last returns on the corpus of that moment
C30_OneSearchInFlight ==
    [][/\ Len(page'.timers) <= 1
       /\ page'.timers # <<>> => page'.isSearching
       /\ Len(page'.timers) < Len(page.timers)
              => page'.searchResults
                   = FreshSearch(page.timers[Len(page.timers)].query).ret]_vars

=============================================================================
